---- MODULE Spec2Model ----
(***************************************************************************)
(* Model of envmerge's precedence resolution engine                        *)
(* (internal/resolver/resolver.go).                                        *)
(*                                                                         *)
(* Go strings that the code inspects character by character (lines of an   *)
(* env file, keys, values, entries of os.Environ) are sequences of         *)
(* one-character strings; "" is << >>.  File names and service names are   *)
(* only compared for equality and are TLA+ strings.                        *)
(***************************************************************************)
EXTENDS Integers, Sequences, FiniteSets, TLC

\* ------------------------------------------------------------------ bounds
\* size of the largest input scanned: artifacts found, env_file targets
\* looked up, Observations ingested and warnings raised
MaxInput == 4
\* lines of a file handed to a parser called on its own
MaxLines == 2
\* characters of a value handed to unquote called on its own
MaxValueLen == 4
\* entries of an environment block handed to parseInlineEnv called on its own
MaxEntries == 2
\* longest Chain handed to the sort called on its own, and the longest one
\* whose layers are drawn freely
MaxChain == 13
MaxFreeChain == 3

\* ------------------------------------------------------------------ layers
LayerEnvExample == 0
LayerEnv == 1
LayerEnvLocal == 2
LayerEnvOther == 3
LayerComposeEnvFile == 4
LayerComposeInline == 5
LayerOSEnv == 6

Layers == LayerEnvExample .. LayerOSEnv

Precedence(l) ==
    CASE l = LayerEnvExample -> 0
      [] l = LayerEnv -> 1
      [] l = LayerEnvLocal -> 2
      [] l = LayerEnvOther -> 3
      [] l = LayerComposeEnvFile -> 4
      [] l = LayerComposeInline -> 5
      [] l = LayerOSEnv -> 6
      [] OTHER -> -1

\* ----------------------------------------------------------------- strings
\* byte values of the characters the model uses (Go compares strings bytewise)
CharCode(c) ==
    CASE c = "\t" -> 9
      [] c = "\r" -> 13
      [] c = " " -> 32
      [] c = "\"" -> 34
      [] c = "#" -> 35
      [] c = "'" -> 39
      [] c = "=" -> 61
      [] c = "A" -> 65
      [] c = "B" -> 66
      [] c = "e" -> 101
      [] c = "o" -> 111
      [] c = "p" -> 112
      [] c = "r" -> 114
      [] c = "t" -> 116
      [] c = "u" -> 117
      [] c = "x" -> 120
      [] c = "y" -> 121
      [] c = "z" -> 122

\* Go's < on strings
RECURSIVE StrLess(_, _)
StrLess(a, b) ==
    IF b = << >> THEN FALSE
    ELSE IF a = << >> THEN TRUE
    ELSE IF CharCode(Head(a)) # CharCode(Head(b))
         THEN CharCode(Head(a)) < CharCode(Head(b))
    ELSE StrLess(Tail(a), Tail(b))

IsSpace(c) == c \in {" ", "\t", "\r", "\n"}

RECURSIVE TrimLeft(_)
TrimLeft(s) ==
    IF s # << >> /\ IsSpace(Head(s)) THEN TrimLeft(Tail(s)) ELSE s

RECURSIVE TrimRight(_)
TrimRight(s) ==
    IF s # << >> /\ IsSpace(s[Len(s)])
    THEN TrimRight(SubSeq(s, 1, Len(s) - 1)) ELSE s

\* strings.TrimSpace
TrimSpace(s) == TrimRight(TrimLeft(s))

\* strings.HasPrefix
HasPrefix(s, p) == Len(s) >= Len(p) /\ SubSeq(s, 1, Len(p)) = p

\* strings.TrimPrefix
TrimPrefix(s, p) ==
    IF HasPrefix(s, p) THEN SubSeq(s, Len(p) + 1, Len(s)) ELSE s

\* strings.SplitN(s, "=", 2): one part when s has no "=", else two
SplitN2(s) ==
    IF \E i \in 1..Len(s) : s[i] = "="
    THEN LET i == CHOOSE k \in 1..Len(s) :
                     s[k] = "=" /\ \A j \in 1..(k - 1) : s[j] # "="
         IN << SubSeq(s, 1, i - 1), SubSeq(s, i + 1, Len(s)) >>
    ELSE << s >>

\* unquote that strips quote pairs for as long as one wraps the value
RECURSIVE unquoteRepeated(_)
unquoteRepeated(s) ==
    IF Len(s) >= 2
       /\ \/ (s[1] = "\"" /\ s[Len(s)] = "\"")
          \/ (s[1] = "'" /\ s[Len(s)] = "'")
    THEN unquoteRepeated(SubSeq(s, 2, Len(s) - 1))
    ELSE s

unquote(s) ==
    IF Len(s) >= 2
       /\ \/ (s[1] = "\"" /\ s[Len(s)] = "\"")
          \/ (s[1] = "'" /\ s[Len(s)] = "'")
    THEN SubSeq(s, 2, Len(s) - 1)
    ELSE s

\* bufio.ScanLines: the text of a line, without one trailing carriage return
ScanText(raw) ==
    IF raw # << >> /\ raw[Len(raw)] = "\r"
    THEN SubSeq(raw, 1, Len(raw) - 1) ELSE raw

ExportPrefix == << "e", "x", "p", "o", "r", "t", " " >>

\* ------------------------------------------------------------ data model
Source(layer, file, line, service, value, inline) ==
    [Layer |-> layer, File |-> file, Line |-> line, Service |-> service,
     Value |-> value, IsInline |-> inline]

\* the zero value of a Go Source
ZeroSource == Source(0, "", 0, "", << >>, FALSE)

\* &Variable{Name: name}
NewVariable(name) ==
    [Name |-> name, FinalValue |-> << >>, FinalFrom |-> ZeroSource,
     Chain |-> << >>, Overridden |-> FALSE, Conflicts |-> << >>]

\* r.addSource(name, src) on the ByName index
addSource(byName, name, src) ==
    LET v == IF name \in DOMAIN byName THEN byName[name]
             ELSE NewVariable(name)
    IN [n \in DOMAIN byName \cup {name} |->
          IF n = name THEN [v EXCEPT !.Chain = Append(@, src)]
          ELSE byName[n]]

\* number of Observations held by the index
RECURSIVE ObsCount(_)
ObsCount(byName) ==
    IF DOMAIN byName = {} THEN 0
    ELSE LET n == CHOOSE x \in DOMAIN byName : TRUE
         IN Len(byName[n].Chain)
            + ObsCount([m \in DOMAIN byName \ {n} |-> byName[m]])

\* the size of the input scanned so far
InputSize(byName, envFiles, composeFiles, warnings, refs) ==
    Len(envFiles) + Len(composeFiles) + Cardinality(DOMAIN refs)
    + ObsCount(byName) + Len(warnings)

\* ------------------------------------------------------------ env files
\* EnvLineKV without the handling of the export prefix
EnvLineKVKeepExport(raw) ==
    LET line == TrimSpace(ScanText(raw))
        parts == SplitN2(line)
        key == TrimSpace(parts[1])
        value == unquote(TrimSpace(parts[2]))
    IN IF line = << >> \/ HasPrefix(line, << "#" >>) THEN [ok |-> FALSE]
       ELSE IF Len(parts) # 2 THEN [ok |-> FALSE]
       ELSE IF key = << >> THEN [ok |-> FALSE]
       ELSE [ok |-> TRUE, key |-> key, value |-> value]

\* one pass of the scanner loop of parseEnvFile: the Observation a raw line
\* yields, if any
EnvLineKV(raw) ==
    LET line == TrimSpace(ScanText(raw))
        rest == TrimSpace(TrimPrefix(line, ExportPrefix))
        parts == SplitN2(rest)
        key == TrimSpace(parts[1])
        value == unquote(TrimSpace(parts[2]))
    IN IF line = << >> \/ HasPrefix(line, << "#" >>) THEN [ok |-> FALSE]
       ELSE IF Len(parts) # 2 THEN [ok |-> FALSE]
       ELSE IF key = << >> THEN [ok |-> FALSE]
       ELSE [ok |-> TRUE, key |-> key, value |-> value]

\* the scanner loop of parseEnvFile over lines i..Len(lines)
RECURSIVE EnvFileLoop(_, _, _, _, _)
EnvFileLoop(byName, path, layer, lines, i) ==
    IF i > Len(lines) THEN byName
    ELSE LET kv == EnvLineKV(lines[i])
         IN EnvFileLoop(
                IF kv.ok
                THEN addSource(byName, kv.key,
                               Source(layer, path, i, "", kv.value, FALSE))
                ELSE byName,
                path, layer, lines, i + 1)

\* What the file system holds at a path:
\*   absent      os.Stat fails
\*   unreadable  os.Stat succeeds, os.Open fails
\*   file        the lines are read to the end
\*   truncated   the lines are read, then the scanner reports an error
Absent == [kind |-> "absent", lines |-> << >>]
Unreadable == [kind |-> "unreadable", lines |-> << >>]
File(lines) == [kind |-> "file", lines |-> lines]
Truncated(lines) == [kind |-> "truncated", lines |-> lines]

\* r.parseEnvFile(path, layer): the new index and whether an error is returned
parseEnvFile(byName, path, layer, f) ==
    IF f.kind = "unreadable" THEN [byName |-> byName, err |-> TRUE]
    ELSE [byName |-> EnvFileLoop(byName, path, layer, f.lines, 1),
          err |-> f.kind = "truncated"]

\* fmt.Sprintf("Error parsing %s: %v", pattern, err)
ParseWarning(pattern) == << "Error parsing", pattern >>

\* the env-file contents of the model
LineAx == << "A", "=", "x" >>
LineAy == << "e", "x", "p", "o", "r", "t", " ", "A", "=", "\"", "y", "\"" >>
LineBempty == << " ", "B", " ", "=", "\r" >>
LineComment == << "#", "A", "=", "y" >>

EnvContents ==
    { << LineAx >>,
      << LineAy >>,
      << LineBempty >>,
      << LineComment, LineAx >> }

\* an existing env file
ExistingEnvFiles ==
    {Unreadable, Truncated(<< LineAx >>)}
    \cup { File(ls) : ls \in EnvContents }

EnvFileStates == {Absent} \cup ExistingEnvFiles

\* envPatterns
envPatterns ==
    << [pattern |-> ".env.example", layer |-> LayerEnvExample],
       [pattern |-> ".env", layer |-> LayerEnv],
       [pattern |-> ".env.local", layer |-> LayerEnvLocal] >>

\* names a directory listing can hold that pass the other-variant test
\* (prefix ".env.", not .env.example, not .env.local), in os.ReadDir's
\* order: sorted by file name
OtherVariantNames == << ".env.development", ".env.development.local" >>

\* composePatterns
composePatterns ==
    << "docker-compose.yml", "docker-compose.yaml",
       "compose.yml", "compose.yaml" >>

\* ------------------------------------------------------------- manifests
\* Decoded YAML values (interface{}), as records of one shape per use.
\* A scalar: nil, a string or a boolean.
YNil == [t |-> "nil", s |-> << >>, b |-> FALSE]
YStr(s) == [t |-> "str", s |-> s, b |-> FALSE]
YBool(b) == [t |-> "bool", s |-> << >>, b |-> b]
\* An environment value: nothing, a mapping (the sequence of its
\* << key, scalar >> pairs, keys distinct) or a list of scalars.
NoEnvironment == [t |-> "nil", pairs |-> << >>, items |-> << >>]
EnvMap(pairs) == [t |-> "map", pairs |-> pairs, items |-> << >>]
EnvList(items) == [t |-> "seq", pairs |-> << >>, items |-> items]
\* An env_file value: nothing, one path or a list whose items are paths or
\* something else.
NoEnvFile == [t |-> "nil", path |-> "", items |-> << >>]
EnvFilePath(p) == [t |-> "str", path |-> p, items |-> << >>]
EnvFileList(items) == [t |-> "seq", path |-> "", items |-> items]
PathItem(p) == [t |-> "str", path |-> p]
OtherItem == [t |-> "bool", path |-> ""]

\* fmt.Sprintf("%v", val) of a non-nil scalar
FormatValue(val) ==
    IF val.t = "bool"
    THEN (IF val.b THEN << "t", "r", "u", "e" >>
          ELSE << "f", "a", "l", "s", "e" >>)
    ELSE val.s

\* all orders in which the members of a finite set can be visited
PermSeqs(S) ==
    { q \in [1..Cardinality(S) -> S] :
        \A i, j \in 1..Cardinality(S) : q[i] = q[j] => i = j }

\* the scanner loop of parseEnvFileRef over lines i..Len(lines)
RECURSIVE RefFileLoop(_, _, _, _, _)
RefFileLoop(byName, envPath, serviceName, lines, i) ==
    IF i > Len(lines) THEN byName
    ELSE LET line == TrimSpace(ScanText(lines[i]))
             parts == SplitN2(line)
             key == TrimSpace(parts[1])
             value == unquote(TrimSpace(parts[2]))
             skip == line = << >> \/ HasPrefix(line, << "#" >>)
                     \/ Len(parts) # 2
         IN RefFileLoop(
                IF skip THEN byName
                ELSE addSource(byName, key,
                               Source(LayerComposeEnvFile, envPath, i,
                                      serviceName, value, FALSE)),
                envPath, serviceName, lines, i + 1)

\* the strings of an env_file value: a single path or the string items of a list
RefFileNames(envFile) ==
    IF envFile.t = "str" THEN << envFile.path >>
    ELSE IF envFile.t = "seq"
         THEN LET IsString(item) == item.t = "str"
                  strs == SelectSeq(envFile.items, IsString)
              IN [k \in 1..Len(strs) |-> strs[k].path]
    ELSE << >>

\* the loop of parseEnvFileRef over files[i..]; refs gives what is on disk
RECURSIVE RefFilesLoop(_, _, _, _, _)
RefFilesLoop(byName, serviceName, files, refs, i) ==
    IF i > Len(files) THEN byName
    ELSE LET f == refs[files[i]]
         IN RefFilesLoop(
                IF f.kind \in {"absent", "unreadable"} THEN byName
                ELSE RefFileLoop(byName, files[i], serviceName, f.lines, 1),
                serviceName, files, refs, i + 1)

parseEnvFileRef(byName, serviceName, envFile, refs) ==
    RefFilesLoop(byName, serviceName, RefFileNames(envFile), refs, 1)

\* InlineMapLoop without the nil test: %v prints a nil value as <nil>
RECURSIVE InlineMapLoopFormatsNil(_, _, _, _, _)
InlineMapLoopFormatsNil(byName, composePath, serviceName, pairs, i) ==
    IF i > Len(pairs) THEN byName
    ELSE LET key == pairs[i][1]
             val == pairs[i][2]
             value == IF val.t = "nil"
                      THEN << "<", "n", "i", "l", ">" >>
                      ELSE FormatValue(val)
         IN InlineMapLoopFormatsNil(
                addSource(byName, key,
                          Source(LayerComposeInline, composePath, 0,
                                 serviceName, value, TRUE)),
                composePath, serviceName, pairs, i + 1)

\* parseInlineEnv, mapping shape, pairs i..Len(pairs).  Go visits the keys
\* in an unspecified order; the keys of one mapping are distinct and every
\* key appends to its own Variable's Chain, so every order builds the same
\* index.
RECURSIVE InlineMapLoop(_, _, _, _, _)
InlineMapLoop(byName, composePath, serviceName, pairs, i) ==
    IF i > Len(pairs) THEN byName
    ELSE LET key == pairs[i][1]
             val == pairs[i][2]
             value == IF val.t = "nil" THEN << >> ELSE FormatValue(val)
         IN InlineMapLoop(
                addSource(byName, key,
                          Source(LayerComposeInline, composePath, 0,
                                 serviceName, value, TRUE)),
                composePath, serviceName, pairs, i + 1)

\* parseInlineEnv, list shape, items i..Len(items)
RECURSIVE InlineListLoop(_, _, _, _, _)
InlineListLoop(byName, composePath, serviceName, items, i) ==
    IF i > Len(items) THEN byName
    ELSE LET parts == SplitN2(items[i].s)
             key == parts[1]
             value == IF Len(parts) = 2 THEN parts[2] ELSE << >>
         IN InlineListLoop(
                IF items[i].t = "str"
                THEN addSource(byName, key,
                               Source(LayerComposeInline, composePath, 0,
                                      serviceName, value, TRUE))
                ELSE byName,
                composePath, serviceName, items, i + 1)

parseInlineEnv(byName, composePath, serviceName, env) ==
    IF env.t = "map"
    THEN InlineMapLoop(byName, composePath, serviceName, env.pairs, 1)
    ELSE IF env.t = "seq"
    THEN InlineListLoop(byName, composePath, serviceName, env.items, 1)
    ELSE byName

\* the loop of parseComposeFile over the services, visited in the given order
RECURSIVE ServicesLoop(_, _, _, _, _, _)
ServicesLoop(byName, path, services, order, refs, i) ==
    IF i > Len(order) THEN byName
    ELSE LET svc == services[order[i]]
             afterRefs == IF svc.EnvFile.t # "nil"
                          THEN parseEnvFileRef(byName, order[i],
                                               svc.EnvFile, refs)
                          ELSE byName
             afterInline == IF svc.Environment.t # "nil"
                            THEN parseInlineEnv(afterRefs, path, order[i],
                                                svc.Environment)
                            ELSE afterRefs
         IN ServicesLoop(afterInline, path, services, order, refs, i + 1)

\* What the file system holds at a manifest path:
\*   absent, unreadable  as for env files
\*   invalid             yaml.Unmarshal fails
\*   doc                 a document with the given services
NoManifest == [kind |-> "absent"]
UnreadableManifest == [kind |-> "unreadable"]
InvalidManifest == [kind |-> "invalid"]
Manifest(services) == [kind |-> "doc", services |-> services]

\* parseComposeFile that drops the error of os.ReadFile and yaml.Unmarshal
parseComposeFileDropsError(byName, path, m, order, refs) ==
    IF m.kind \in {"unreadable", "invalid"}
    THEN [byName |-> byName, err |-> FALSE]
    ELSE [byName |-> ServicesLoop(byName, path, m.services, order, refs, 1),
          err |-> FALSE]

\* r.parseComposeFile(path): the new index and whether an error is returned
parseComposeFile(byName, path, m, order, refs) ==
    IF m.kind \in {"unreadable", "invalid"}
    THEN [byName |-> byName, err |-> TRUE]
    ELSE [byName |-> ServicesLoop(byName, path, m.services, order, refs, 1),
          err |-> FALSE]

\* the manifests of the model
ServiceNames == {"api", "db"}
RefPaths == {"app.env"}

\* what a service declares: env_file and environment
Service(envFile, environment) ==
    [EnvFile |-> envFile, Environment |-> environment]

ServiceShapes ==
    { Service(EnvFilePath("app.env"), NoEnvironment),
      Service(EnvFileList(<< OtherItem, PathItem("app.env") >>),
              EnvMap(<< << << "A" >>, YStr(<< "x" >>) >> >>)),
      Service(NoEnvFile, EnvMap(<< << << "A" >>, YStr(<< "x" >>) >> >>)),
      Service(NoEnvFile, EnvMap(<< << << "B" >>, YNil >> >>)),
      Service(NoEnvFile, EnvList(<< YStr(<< "A", "=", "x" >>),
                                    YStr(<< "A", "=", "y" >>) >>)),
      Service(NoEnvFile, EnvList(<< YStr(<< "A" >>), YBool(FALSE) >>)) }

Manifests ==
    { NoManifest, UnreadableManifest, InvalidManifest }
    \cup { Manifest(sv) :
             sv \in UNION { [S -> ServiceShapes] :
                               S \in SUBSET ServiceNames \ { {} } } }

\* -------------------------------------------------------------- finalize
\* InsertByPrecedence with the comparison reversed: sorts descending
RECURSIVE InsertByPrecedenceDescending(_, _)
InsertByPrecedenceDescending(sorted, src) ==
    IF sorted # << >>
       /\ Precedence(src.Layer) > Precedence(sorted[Len(sorted)].Layer)
    THEN Append(InsertByPrecedenceDescending(
                    SubSeq(sorted, 1, Len(sorted) - 1), src),
                sorted[Len(sorted)])
    ELSE Append(sorted, src)

\* sort.Slice on a Chain: below 12 elements Go's pdqsort is a plain insertion
\* sort, which moves an element left only past elements that rank higher
RECURSIVE InsertByPrecedence(_, _)
InsertByPrecedence(sorted, src) ==
    IF sorted # << >>
       /\ Precedence(src.Layer) < Precedence(sorted[Len(sorted)].Layer)
    THEN Append(InsertByPrecedence(SubSeq(sorted, 1, Len(sorted) - 1), src),
                sorted[Len(sorted)])
    ELSE Append(sorted, src)

RECURSIVE SortChainFrom(_, _, _)
SortChainFrom(sorted, chain, i) ==
    IF i > Len(chain) THEN sorted
    ELSE SortChainFrom(InsertByPrecedence(sorted, chain[i]), chain, i + 1)

\* SortChain without the sort: the Chain stays in ingestion order
SortChainUnsorted(chain) == chain

SortChain(chain) == SortChainFrom(<< >>, chain, 1)

\* Up to maxInsertion elements sort.Slice is the insertion sort above.  On a
\* longer slice it partitions by swapping, and its contract leaves the order
\* of elements that compare equal open ("not guaranteed to be stable").
maxInsertion == 12

\* the elements of a Chain whose layer has rank r, in the Chain's order
OfRank(chain, r) ==
    LET HasRank(src) == Precedence(src.Layer) = r
    IN SelectSeq(chain, HasRank)

\* every order of the elements of q
Rearrangements(q) ==
    { [i \in 1..Len(q) |-> q[p[i]]] : p \in PermSeqs(1..Len(q)) }

\* the Chains sorted by rank from rank r on, equal ranks in any order
RECURSIVE TieOrders(_, _)
TieOrders(chain, r) ==
    IF r > Precedence(LayerOSEnv) THEN { << >> }
    ELSE { a \o b : a \in Rearrangements(OfRank(chain, r)),
                     b \in TieOrders(chain, r + 1) }

\* what sort.Slice can leave in v.Chain
SortOutcomes(chain) ==
    IF Len(chain) <= maxInsertion THEN { SortChain(chain) }
    ELSE TieOrders(chain, 0)

\* the keys of the values map built from a Chain: the distinct non-empty values
DistinctValues(chain) ==
    { chain[i].Value : i \in 1..Len(chain) } \ { << >> }

\* ConflictValues without the test against the winning value
ConflictValuesWithFinal(chain, finalValue) ==
    IF Cardinality(DistinctValues(chain)) > 1
    THEN DistinctValues(chain)
    ELSE {}

\* the values the conflict loop appends, given the winning value
ConflictValues(chain, finalValue) ==
    IF Cardinality(DistinctValues(chain)) > 1
    THEN DistinctValues(chain) \ { finalValue }
    ELSE {}

\* the body of the step-3 loop for one Variable; conflicts is the order in
\* which Go happened to visit the values map
FinalizeVariable(v, conflicts) ==
    LET chain == SortChain(v.Chain)
        finalFrom == IF Len(chain) > 0 THEN chain[Len(chain)] ELSE v.FinalFrom
        finalValue == IF Len(chain) > 0 THEN finalFrom.Value ELSE v.FinalValue
    IN [v EXCEPT !.Chain = chain,
                 !.FinalFrom = finalFrom,
                 !.FinalValue = finalValue,
                 !.Overridden = Cardinality(DistinctValues(chain)) > 1,
                 !.Conflicts = conflicts]

\* the orders the conflict loop can produce for a Variable
ConflictOrders(v) ==
    LET chain == SortChain(v.Chain)
    IN PermSeqs(ConflictValues(chain, chain[Len(chain)].Value))

\* the step-3 loop over the whole index; conflicts gives each Variable's
\* conflict order
FinalizeAll(byName, conflicts) ==
    [n \in DOMAIN byName |-> FinalizeVariable(byName[n], conflicts[n])]

\* the conflict orders Go's map iteration can produce for a whole index
ConflictChoices(byName) ==
    { c \in [DOMAIN byName ->
               UNION { ConflictOrders(byName[n]) : n \in DOMAIN byName }] :
        \A n \in DOMAIN byName : c[n] \in ConflictOrders(byName[n]) }

\* the names of S in ascending order (sort.Slice by Name; names are distinct)
RECURSIVE SortNames(_)
SortNames(S) ==
    IF S = {} THEN << >>
    ELSE LET least == CHOOSE n \in S : \A m \in S \ {n} : StrLess(n, m)
         IN << least >> \o SortNames(S \ {least})

\* ------------------------------------------------------- ambient merge
\* OSEnvLoop that leaves Overridden as step 3 computed it
RECURSIVE OSEnvLoopKeepsOverridden(_, _, _)
OSEnvLoopKeepsOverridden(byName, env, i) ==
    IF i > Len(env) THEN byName
    ELSE LET parts == SplitN2(env[i])
             key == parts[1]
             value == parts[2]
             src == Source(LayerOSEnv, "environment", 0, "", value, FALSE)
             added == addSource(byName, key, src)
         IN OSEnvLoopKeepsOverridden(
                IF Len(parts) = 2 /\ key \in DOMAIN byName
                THEN [added EXCEPT ![key].FinalValue = value,
                                   ![key].FinalFrom = src]
                ELSE byName,
                env, i + 1)

\* OSEnvLoop without the test that the name is already a Variable
RECURSIVE OSEnvLoopAddsAll(_, _, _)
OSEnvLoopAddsAll(byName, env, i) ==
    IF i > Len(env) THEN byName
    ELSE LET parts == SplitN2(env[i])
             key == parts[1]
             value == parts[2]
             src == Source(LayerOSEnv, "environment", 0, "", value, FALSE)
             added == addSource(byName, key, src)
         IN OSEnvLoopAddsAll(
                IF Len(parts) = 2
                THEN [added EXCEPT ![key].FinalValue = value,
                                   ![key].FinalFrom = src,
                                   ![key].Overridden = TRUE]
                ELSE byName,
                env, i + 1)

\* the loop over os.Environ(), entries i..Len(env)
RECURSIVE OSEnvLoop(_, _, _)
OSEnvLoop(byName, env, i) ==
    IF i > Len(env) THEN byName
    ELSE LET parts == SplitN2(env[i])
             key == parts[1]
             value == parts[2]
             src == Source(LayerOSEnv, "environment", 0, "", value, FALSE)
             added == addSource(byName, key, src)
         IN OSEnvLoop(
                IF Len(parts) = 2 /\ key \in DOMAIN byName
                THEN [added EXCEPT ![key].FinalValue = value,
                                   ![key].FinalFrom = src,
                                   ![key].Overridden = TRUE]
                ELSE byName,
                env, i + 1)

\* the ambient environments of the model (os.Environ holds a name once)
Environs ==
    { << >>,
      << << "A", "=", "z" >>, << "z", "=", "x" >> >>,
      << << "A", "=", "x" >>, << "B", "=" >> >> }

\* ------------------------------------------------------- service filter
\* usedByService without the unscoped case
usedByServiceScopedOnly(v, serviceName) ==
    \E i \in 1..Len(v.Chain) : v.Chain[i].Service = serviceName

usedByService(v, serviceName) ==
    \E i \in 1..Len(v.Chain) :
        v.Chain[i].Service = serviceName \/ v.Chain[i].Service = ""

\* r.filterToService(serviceName) on the Variables list (names index ByName)
filterToService(variables, byName, serviceName) ==
    LET Keep(n) == usedByService(byName[n], serviceName)
    IN SelectSeq(variables, Keep)

\* ---------------------------------------------------------- strict mode
hasDefinition(v) == \E i \in 1..Len(v.Chain) : v.Chain[i].Value # << >>

\* findUndefinedVars without the search for a definition in the Chain
findUndefinedVarsByFinalOnly(variables, byName) ==
    LET IsUndefined(n) == byName[n].FinalValue = << >>
    IN SelectSeq(variables, IsUndefined)

\* r.findUndefinedVars(): the names appended to Undefined
findUndefinedVars(variables, byName) ==
    LET IsUndefined(n) ==
            byName[n].FinalValue = << >> /\ ~hasDefinition(byName[n])
    IN SelectSeq(variables, IsUndefined)

\* strictModeError that fails whenever strict mode is set
strictModeErrorAlways(o, undefined) == o.StrictMode

\* whether the strict-mode check makes the call return an error
strictModeError(o, undefined) == o.StrictMode /\ Len(undefined) > 0

\* Options; CompareWith is not read by the resolver
Options(os, service, strict) ==
    [IncludeOSEnv |-> os, ServiceName |-> service, StrictMode |-> strict]

OptionsSet ==
    { Options(os, service, strict) :
        os \in BOOLEAN, service \in {"", "api"}, strict \in BOOLEAN }

\* -------------------------------------------------------------- compare
\* DiffVar that carries the first side's value twice
DiffVarFirstTwice(name, firstVal, secondVal) ==
    [Name |-> name, FirstValue |-> firstVal, SecondValue |-> firstVal]

DiffVar(name, firstVal, secondVal) ==
    [Name |-> name, FirstValue |-> firstVal, SecondValue |-> secondVal]

\* firstVars / secondVars: the name -> FinalValue map built from r.Variables
FinalValues(r) ==
    [n \in { r.Variables[i] : i \in 1..Len(r.Variables) } |->
        r.ByName[n].FinalValue]

\* the names of a that b lacks
onlyIn(a, b) == { n \in DOMAIN a : n \notin DOMAIN b }

differentNames(firstVars, secondVars) ==
    { n \in DOMAIN firstVars :
        n \in DOMAIN secondVars /\ firstVars[n] # secondVars[n] }

\* sameNames without the test on the two values
sameNamesAll(firstVars, secondVars) ==
    { n \in DOMAIN firstVars : n \in DOMAIN secondVars }

sameNames(firstVars, secondVars) ==
    { n \in DOMAIN firstVars :
        n \in DOMAIN secondVars /\ firstVars[n] = secondVars[n] }

\* Compare(first, second); the lists are filled in map order and then sorted
Compare(first, second) ==
    LET firstVars == FinalValues(first)
        secondVars == FinalValues(second)
        diffs == SortNames(differentNames(firstVars, secondVars))
    IN [OnlyInFirst |-> SortNames(onlyIn(firstVars, secondVars)),
        OnlyInSecond |-> SortNames(onlyIn(secondVars, firstVars)),
        Different |-> [i \in 1..Len(diffs) |->
                          DiffVar(diffs[i], firstVars[diffs[i]],
                                  secondVars[diffs[i]])],
        Same |-> SortNames(sameNames(firstVars, secondVars))]

\* the Resolutions handed to Compare: a Variables list in name order over
\* some of three names, each Variable with one of three final values
CompareNames == { << "A" >>, << "B" >>, << "z" >> }
CompareValues == { << >>, << "x" >>, << "y" >> }

ResolutionOf(finals) ==
    [Variables |-> SortNames(DOMAIN finals),
     ByName |-> [n \in DOMAIN finals |->
                    [NewVariable(n) EXCEPT !.FinalValue = finals[n]]]]

Resolutions ==
    UNION { { ResolutionOf(f) : f \in [N -> CompareValues] } :
            N \in SUBSET CompareNames }

\* ----------------------------------------------------------------- state
\* One call of ResolveWithOptions.  pc is the position in its body, idx the
\* index of the loop it is in; the other variables are the fields of the
\* Resolution r, err the error returned, environ what os.Environ returned,
\* refFiles the env_file targets looked up so far, manifest what the scan
\* found at the manifest path it looked at last ("absent" before it looked).
\* opts is the caller's argument.  The code first reads it at the ambient
\* merge, and the model draws the caller's choice there; until then it holds
\* the Options{} that Resolve passes.
\* Variables holds names: each stands for the pointer to ByName's entry.
\* args and ret hold the arguments and the results of a call of one of the
\* package's functions made on its own (Compare, the parsers, unquote)
VARIABLES pc, idx, opts, environ, refFiles, manifest,
          ByName, Variables, EnvFiles, ComposeFiles, Warnings, Undefined, err,
          args, ret

vars == << pc, idx, opts, environ, refFiles, manifest,
           ByName, Variables, EnvFiles, ComposeFiles, Warnings, Undefined,
           err, args, ret >>

EmptyMap == [n \in {} |-> n]

\* r := &Resolution{...}: the Resolution and the loop state before any scan
Fresh ==
    /\ idx = 1
    /\ opts = Options(FALSE, "", FALSE)
    /\ environ = << >>
    /\ refFiles = EmptyMap
    /\ manifest = "absent"
    /\ ByName = EmptyMap
    /\ Variables = << >>
    /\ EnvFiles = << >>
    /\ ComposeFiles = << >>
    /\ Warnings = << >>
    /\ Undefined = << >>
    /\ err = FALSE

Init ==
    /\ pc = "envPatterns"
    /\ Fresh
    /\ args = << >>
    /\ ret = << >>

\* one pass of the loop over envPatterns
ScanEnvPattern ==
    /\ pc = "envPatterns"
    /\ \E f \in EnvFileStates :
         LET ep == envPatterns[idx]
             res == parseEnvFile(ByName, ep.pattern, ep.layer, f)
             envFiles == Append(EnvFiles, ep.pattern)
             warnings == IF res.err
                         THEN Append(Warnings, ParseWarning(ep.pattern))
                         ELSE Warnings
         IN IF f.kind = "absent"
            THEN UNCHANGED << ByName, EnvFiles, Warnings >>
            ELSE /\ InputSize(res.byName, envFiles, ComposeFiles, warnings,
                              refFiles) <= MaxInput
                 /\ ByName' = res.byName
                 /\ EnvFiles' = envFiles
                 /\ Warnings' = warnings
    /\ IF idx < Len(envPatterns)
       THEN idx' = idx + 1 /\ pc' = pc
       ELSE idx' = 1 /\ pc' = "otherVariants"
    /\ UNCHANGED << opts, environ, refFiles, manifest, Variables, ComposeFiles,
                    Undefined, err >>

\* the loop over the directory entries, from entry i on; r is the record of
\* the fields the loop writes, files what each listed name holds
RECURSIVE OtherVariantsLoop(_, _, _, _)
OtherVariantsLoop(r, entries, files, i) ==
    IF i > Len(entries) THEN r
    ELSE LET name == entries[i]
             res == parseEnvFile(r.ByName, name, LayerEnvOther, files[name])
         IN OtherVariantsLoop(
                [ByName |-> res.byName,
                 EnvFiles |-> Append(r.EnvFiles, name),
                 Warnings |-> IF res.err
                              THEN Append(r.Warnings, ParseWarning(name))
                              ELSE r.Warnings],
                entries, files, i + 1)

\* os.ReadDir and the loop over its entries
ScanOtherVariants ==
    /\ pc = "otherVariants"
    /\ \E present \in SUBSET { OtherVariantNames[k] :
                                 k \in 1..Len(OtherVariantNames) } :
       \E files \in [present -> ExistingEnvFiles] :
         LET InListing(n) == n \in present
             r == OtherVariantsLoop(
                      [ByName |-> ByName, EnvFiles |-> EnvFiles,
                       Warnings |-> Warnings],
                      SelectSeq(OtherVariantNames, InListing), files, 1)
         IN /\ InputSize(r.ByName, r.EnvFiles, ComposeFiles, r.Warnings,
                         refFiles) <= MaxInput
            /\ ByName' = r.ByName
            /\ EnvFiles' = r.EnvFiles
            /\ Warnings' = r.Warnings
    /\ pc' = "composePatterns"
    /\ idx' = 1
    /\ UNCHANGED << opts, environ, refFiles, manifest, Variables, ComposeFiles,
                    Undefined, err >>

\* the env_file targets a manifest names
ReferencedPaths(m) ==
    IF m.kind # "doc" THEN {}
    ELSE UNION { { RefFileNames(m.services[sv].EnvFile)[k] :
                     k \in 1..Len(RefFileNames(m.services[sv].EnvFile)) } :
                 sv \in DOMAIN m.services }

\* one pass of the loop over composePatterns
ScanComposePattern ==
    /\ pc = "composePatterns"
    /\ \E m \in Manifests :
         /\ manifest' = m.kind
         /\ IF m.kind = "absent"
            THEN UNCHANGED << ByName, ComposeFiles, Warnings, refFiles >>
            ELSE
              /\ InputSize(ByName, EnvFiles, ComposeFiles, Warnings, refFiles)
                   < MaxInput
              /\ \E refs \in [ReferencedPaths(m) \cup DOMAIN refFiles ->
                                EnvFileStates] :
                 \E order \in PermSeqs(IF m.kind = "doc"
                                       THEN DOMAIN m.services ELSE {}) :
                   LET pattern == composePatterns[idx]
                       res == parseComposeFile(ByName, pattern, m, order, refs)
                       composeFiles == Append(ComposeFiles, pattern)
                       warnings == IF res.err
                                   THEN Append(Warnings, ParseWarning(pattern))
                                   ELSE Warnings
                   IN /\ \A p \in DOMAIN refFiles : refs[p] = refFiles[p]
                      /\ InputSize(res.byName, EnvFiles, composeFiles, warnings,
                                   refs) <= MaxInput
                      /\ refFiles' = refs
                      /\ ByName' = res.byName
                      /\ ComposeFiles' = composeFiles
                      /\ Warnings' = warnings
    /\ IF idx < Len(composePatterns)
       THEN idx' = idx + 1 /\ pc' = pc
       ELSE idx' = 1 /\ pc' = "finalize"
    /\ UNCHANGED << opts, environ, Variables, EnvFiles, Undefined, err >>

\* step 3: the loop over ByName and the sort of Variables by name
Finalize ==
    /\ pc = "finalize"
    /\ \E conflicts \in ConflictChoices(ByName) :
         ByName' = FinalizeAll(ByName, conflicts)
    /\ Variables' = SortNames(DOMAIN ByName)
    /\ pc' = "osEnv"
    /\ UNCHANGED << idx, opts, environ, refFiles, manifest, EnvFiles,
                    ComposeFiles, Warnings, Undefined, err >>

\* the ambient merge, when opts.IncludeOSEnv
MergeOSEnv ==
    /\ pc = "osEnv"
    /\ \E o \in OptionsSet :
         /\ opts' = o
         /\ IF o.IncludeOSEnv
            THEN \E env \in Environs :
                   /\ environ' = env
                   /\ ByName' = OSEnvLoop(ByName, env, 1)
            ELSE UNCHANGED << environ, ByName >>
    /\ pc' = "filter"
    /\ UNCHANGED << idx, refFiles, manifest, Variables, EnvFiles, ComposeFiles,
                    Warnings, Undefined, err >>

\* the service filter, when opts.ServiceName is set
FilterService ==
    /\ pc = "filter"
    /\ Variables' = IF opts.ServiceName # ""
                    THEN filterToService(Variables, ByName, opts.ServiceName)
                    ELSE Variables
    /\ pc' = "strict"
    /\ UNCHANGED << idx, opts, environ, refFiles, manifest, ByName, EnvFiles,
                    ComposeFiles, Warnings, Undefined, err >>

\* the strict-mode check and the return
StrictCheck ==
    /\ pc = "strict"
    /\ Undefined' = IF opts.StrictMode
                    THEN Undefined \o findUndefinedVars(Variables, ByName)
                    ELSE Undefined
    /\ err' = strictModeError(opts, Undefined')
    /\ pc' = "done"
    /\ UNCHANGED << idx, opts, environ, refFiles, manifest, ByName, Variables,
                    EnvFiles, ComposeFiles, Warnings >>

Next ==
    /\ \/ ScanEnvPattern
       \/ ScanOtherVariants
       \/ ScanComposePattern
       \/ Finalize
       \/ MergeOSEnv
       \/ FilterService
       \/ StrictCheck
    /\ UNCHANGED << args, ret >>

Spec == Init /\ [][Next]_vars

\* ------------------------------------------------- Compare called on its own
InitCompare ==
    /\ pc = "Compare"
    /\ Fresh
    /\ args \in { [first |-> a, second |-> b] : a, b \in Resolutions }
    /\ ret = << >>

\* result := Compare(first, second)
CallCompare ==
    /\ pc = "Compare"
    /\ ret' = Append(ret, Compare(args.first, args.second))
    /\ pc' = "CompareSwapped"
    /\ UNCHANGED << idx, opts, environ, refFiles, manifest, ByName, Variables,
                    EnvFiles, ComposeFiles, Warnings, Undefined, err, args >>

\* the same two Resolutions compared the other way round
CallCompareSwapped ==
    /\ pc = "CompareSwapped"
    /\ ret' = Append(ret, Compare(args.second, args.first))
    /\ pc' = "done"
    /\ UNCHANGED << idx, opts, environ, refFiles, manifest, ByName, Variables,
                    EnvFiles, ComposeFiles, Warnings, Undefined, err, args >>

NextCompare == CallCompare \/ CallCompareSwapped

SpecCompare == InitCompare /\ [][NextCompare]_vars

\* ----------------------------------------- the file parsers called on their own
\* lines a file can hold
ParserLines ==
    { LineAx, LineAy, LineBempty, LineComment,
      << >>,
      << "A" >>,
      << "=", "x" >>,
      << "e", "x", "p", "o", "r", "t", " ", "=", "x" >>,
      << "A", "=", "x", "=", "y", " ", "#", "z" >>,
      << "\t", "A", "=", "'", "x", "'", " " >>,
      << "A", "=", "\"", "'", "x", "'", "\"" >>,
      << "e", "x", "p", "o", "r", "t", " ", " ", "B", "=", " ", "\"", "x" >>,
      << "e", "x", "p", "o", "r", "t", "A", "=", "x" >>,
      << " ", "#", " ", "A" >> }

ParserFiles ==
    UNION { { File(ls), Truncated(ls) } :
            ls \in UNION { [1..n -> ParserLines] : n \in 0..MaxLines } }

InitParse ==
    /\ pc = "parseEnvFile"
    /\ Fresh
    /\ args \in ParserFiles
    /\ ret = << >>

\* err := r.parseEnvFile(".env", LayerEnv) on a fresh Resolution
CallParseEnvFile ==
    /\ pc = "parseEnvFile"
    /\ ret' = Append(ret, parseEnvFile(EmptyMap, ".env", LayerEnv, args))
    /\ pc' = "parseEnvFileRef"
    /\ UNCHANGED << idx, opts, environ, refFiles, manifest, ByName, Variables,
                    EnvFiles, ComposeFiles, Warnings, Undefined, err, args >>

\* r.parseEnvFileRef(path, "api", "app.env") on a fresh Resolution, app.env
\* holding the same lines
CallParseEnvFileRef ==
    /\ pc = "parseEnvFileRef"
    /\ ret' = Append(ret,
                     [byName |-> parseEnvFileRef(EmptyMap, "api",
                                     EnvFilePath("app.env"),
                                     [p \in {"app.env"} |-> args]),
                      err |-> FALSE])
    /\ pc' = "done"
    /\ UNCHANGED << idx, opts, environ, refFiles, manifest, ByName, Variables,
                    EnvFiles, ComposeFiles, Warnings, Undefined, err, args >>

NextParse == CallParseEnvFile \/ CallParseEnvFileRef

SpecParse == InitParse /\ [][NextParse]_vars

\* ------------------------------------------------ unquote called on its own
QuoteChars == { "\"", "'", "x" }
ItsValue == << "'", "i", "t", "'", "\"", "s", "'" >>

QuotedValues ==
    UNION { [1..n -> QuoteChars] : n \in 0..MaxValueLen } \cup { ItsValue }

InitUnquote ==
    /\ pc = "unquote"
    /\ Fresh
    /\ args \in QuotedValues
    /\ ret = << >>

CallUnquote ==
    /\ pc = "unquote"
    /\ ret' = Append(ret, unquote(args))
    /\ pc' = "done"
    /\ UNCHANGED << idx, opts, environ, refFiles, manifest, ByName, Variables,
                    EnvFiles, ComposeFiles, Warnings, Undefined, err, args >>

NextUnquote == CallUnquote

SpecUnquote == InitUnquote /\ [][NextUnquote]_vars

\* ----------------------------------------- parseInlineEnv called on its own
\* the entries of an environment block: names without "=", each with no
\* value, a string or a boolean
InlineNames == { << "A" >>, << "B" >>, << "z" >> }
InlineScalars ==
    { YNil, YStr(<< >>), YStr(<< "x" >>), YStr(<< "x", "=", "y" >>),
      YStr(<< " ", "x" >>), YBool(TRUE), YBool(FALSE) }

InlineEntries ==
    { q \in UNION { [1..n -> InlineNames \X InlineScalars] :
                    n \in 0..MaxEntries } :
        \A i, j \in 1..Len(q) : q[i][1] = q[j][1] => i = j }

\* how a scalar is written after the "=" of a list entry
WrittenValue(val) ==
    IF val.t = "bool"
    THEN (IF val.b THEN << "t", "r", "u", "e" >>
          ELSE << "f", "a", "l", "s", "e" >>)
    ELSE val.s

\* the list entry that declares what a mapping entry declares: NAME=VALUE,
\* or the bare NAME when the mapping entry has no value
ListEntry(pair) ==
    IF pair[2].t = "nil" THEN YStr(pair[1])
    ELSE YStr(pair[1] \o << "=" >> \o WrittenValue(pair[2]))

InitInline ==
    /\ pc = "inlineMap"
    /\ Fresh
    /\ args \in InlineEntries
    /\ ret = << >>

\* r.parseInlineEnv(path, "api", env), env a mapping with the entries
CallInlineMap ==
    /\ pc = "inlineMap"
    /\ ret' = Append(ret, parseInlineEnv(EmptyMap, "docker-compose.yml",
                                         "api", EnvMap(args)))
    /\ pc' = "inlineList"
    /\ UNCHANGED << idx, opts, environ, refFiles, manifest, ByName, Variables,
                    EnvFiles, ComposeFiles, Warnings, Undefined, err, args >>

\* r.parseInlineEnv(path, "api", env), env the list of the same entries
CallInlineList ==
    /\ pc = "inlineList"
    /\ ret' = Append(ret,
                     parseInlineEnv(EmptyMap, "docker-compose.yml", "api",
                         EnvList([i \in 1..Len(args) |-> ListEntry(args[i])])))
    /\ pc' = "done"
    /\ UNCHANGED << idx, opts, environ, refFiles, manifest, ByName, Variables,
                    EnvFiles, ComposeFiles, Warnings, Undefined, err, args >>

NextInline == CallInlineMap \/ CallInlineList

SpecInline == InitInline /\ [][NextInline]_vars

\* ------------------------------- Resolve called twice on the same directory
\* the directory holds one manifest, docker-compose.yml, and the env_file
\* targets it names; nothing changes between the two calls
Directories ==
    UNION { { [manifest |-> m, refs |-> r] :
                r \in [ReferencedPaths(m) -> EnvFileStates] } :
            m \in Manifests \ { NoManifest } }

\* Resolve(basePath) on that directory: the manifest is parsed with the
\* services visited in the given order, then step 3 runs
ResolveDirectory(d, order, conflicts) ==
    LET res == parseComposeFile(EmptyMap, "docker-compose.yml", d.manifest,
                                order, d.refs)
    IN [ByName |-> FinalizeAll(res.byName, conflicts),
        Variables |-> SortNames(DOMAIN res.byName),
        ComposeFiles |-> << "docker-compose.yml" >>,
        Warnings |-> IF res.err
                     THEN << ParseWarning("docker-compose.yml") >>
                     ELSE << >>]

\* the orders in which Go can visit the services of the manifest
ServiceOrders(d) ==
    PermSeqs(IF d.manifest.kind = "doc"
             THEN DOMAIN d.manifest.services ELSE {})

\* the Resolutions one call can return
ResolveOutcomes(d) ==
    UNION { { ResolveDirectory(d, order, conflicts) :
                conflicts \in ConflictChoices(
                    parseComposeFile(EmptyMap, "docker-compose.yml",
                                     d.manifest, order, d.refs).byName) } :
            order \in ServiceOrders(d) }

InitTwice ==
    /\ pc = "first"
    /\ Fresh
    /\ args \in Directories
    /\ ret = << >>

FirstResolve ==
    /\ pc = "first"
    /\ \E r \in ResolveOutcomes(args) : ret' = Append(ret, r)
    /\ pc' = "second"
    /\ UNCHANGED << idx, opts, environ, refFiles, manifest, ByName,
                    Variables, EnvFiles, ComposeFiles, Warnings, Undefined,
                    err, args >>

SecondResolve ==
    /\ pc = "second"
    /\ \E r \in ResolveOutcomes(args) : ret' = Append(ret, r)
    /\ pc' = "done"
    /\ UNCHANGED << idx, opts, environ, refFiles, manifest, ByName,
                    Variables, EnvFiles, ComposeFiles, Warnings, Undefined,
                    err, args >>

NextTwice == FirstResolve \/ SecondResolve

SpecTwice == InitTwice /\ [][NextTwice]_vars

\* ------------------------------------------ the Chain sort called on its own
\* the Observations of one name in ingestion order: Line tells them apart
ChainOf(layers) ==
    [i \in 1..Len(layers) |->
        Source(layers[i], "artifact", i, "", << "x" >>, FALSE)]

\* a long ingestion: the name twice in each of the four env-file layers,
\* then in the env_file and the inline block of one service after another
LongLayers(n) ==
    [i \in 1..n |->
        IF i <= 2 * 4 THEN (i - 1) \div 2
        ELSE IF i % 2 = 1 THEN LayerComposeEnvFile ELSE LayerComposeInline]

SortInputs ==
    { ChainOf(ls) :
        ls \in UNION { [1..n -> Layers \ { LayerOSEnv }] :
                         n \in 0..MaxFreeChain } }
    \cup { ChainOf(LongLayers(n)) : n \in (2 * 4 + 1)..MaxChain }

InitSort ==
    /\ pc = "sort"
    /\ Fresh
    /\ args \in SortInputs
    /\ ret = << >>

\* sort.Slice(v.Chain, ...) of step 3
CallSort ==
    /\ pc = "sort"
    /\ \E sorted \in SortOutcomes(args) : ret' = Append(ret, sorted)
    /\ pc' = "done"
    /\ UNCHANGED << idx, opts, environ, refFiles, manifest, ByName,
                    Variables, EnvFiles, ComposeFiles, Warnings, Undefined,
                    err, args >>

NextSort == CallSort

SpecSort == InitSort /\ [][NextSort]_vars

\* ============================================================== properties
\* the call has returned
Returned == pc = "done"

Elements(q) == { q[i] : i \in 1..Len(q) }
NoDuplicates(q) == \A i, j \in 1..Len(q) : q[i] = q[j] => i = j
NamesOf(byName) == DOMAIN byName

\* the highest layer rank in a chain
TopRank(chain) ==
    CHOOSE r \in { Precedence(chain[i].Layer) : i \in 1..Len(chain) } :
        \A i \in 1..Len(chain) : Precedence(chain[i].Layer) <= r

\* two Observations of the chain carry different non-empty values
Disagree(chain) ==
    \E i, j \in 1..Len(chain) :
        /\ chain[i].Value # << >>
        /\ chain[j].Value # << >>
        /\ chain[i].Value # chain[j].Value

HasAmbient(chain) == \E i \in 1..Len(chain) : chain[i].Layer = LayerOSEnv

\* the chain reordered by a permutation of its indices
Reordered(chain, p) == [k \in 1..Len(chain) |-> chain[p[k]]]

\* the final value step 3 computes from a chain ingested in the given order
FinalValueOf(ingested) == SortChain(ingested)[Len(ingested)].Value

\* C1: in a returned Resolution every Variable has a non-empty Chain,
\* FinalFrom is the last element of Chain, FinalValue is FinalFrom.Value and
\* no Observation of the Chain outranks FinalFrom.
C1_FinalIsLastAndHighest ==
    Returned =>
        \A n \in NamesOf(ByName) :
            LET v == ByName[n]
            IN /\ v.Chain # << >>
               /\ v.FinalFrom = v.Chain[Len(v.Chain)]
               /\ v.FinalValue = v.FinalFrom.Value
               /\ \A i \in 1..Len(v.Chain) :
                      Precedence(v.Chain[i].Layer)
                          <= Precedence(v.FinalFrom.Layer)

\* an inline declaration wins over a file reference and a base file, and the
\* ambient value over all of them
C1_Witness ==
    /\ Returned
    /\ \E n \in NamesOf(ByName) :
         LET v == ByName[n]
         IN /\ Len(v.Chain) >= 3
            /\ v.Chain[1].Layer < v.Chain[2].Layer
            /\ v.Chain[2].Layer = LayerComposeInline
            /\ v.FinalFrom.Layer = LayerOSEnv

TopAgree(chain) ==
    \A i, j \in 1..Len(chain) :
        (/\ Precedence(chain[i].Layer) = TopRank(chain)
         /\ Precedence(chain[j].Layer) = TopRank(chain))
        => chain[i].Value = chain[j].Value

C3_OverriddenIffDisagree ==
    Returned =>
        \A n \in NamesOf(ByName) :
            ByName[n].Overridden <=> Disagree(ByName[n].Chain)

\* C3 amended: Overridden exactly when two Observations of the Chain carry
\* different non-empty values or the Chain holds an ambient Observation.
C3_OverriddenIffDisagreeOrAmbient ==
    Returned =>
        \A n \in NamesOf(ByName) :
            ByName[n].Overridden
                <=> (Disagree(ByName[n].Chain) \/ HasAmbient(ByName[n].Chain))

\* the merge forces Overridden on a Variable whose values do not disagree
C3_Witness ==
    /\ Returned
    /\ \E n \in NamesOf(ByName) :
         /\ HasAmbient(ByName[n].Chain)
         /\ ~Disagree(ByName[n].Chain)
         /\ ByName[n].Overridden

\* the distinct non-empty values of a chain, stated without the model's helper
NonEmptyValues(chain) ==
    { val \in Elements([i \in 1..Len(chain) |-> chain[i].Value]) :
        val # << >> }

\* C4: without the ambient merge, Conflicts holds every distinct non-empty
\* value other than FinalValue exactly once when there are at least two
\* distinct non-empty values, and is empty otherwise.
C4_ConflictsAreOtherValues ==
    (Returned /\ ~opts.IncludeOSEnv) =>
        \A n \in NamesOf(ByName) :
            LET v == ByName[n]
                D == NonEmptyValues(v.Chain)
            IN /\ NoDuplicates(v.Conflicts)
               /\ Elements(v.Conflicts)
                    = IF Cardinality(D) > 1 THEN D \ { v.FinalValue } ELSE {}

\* observations [A, A, B] with B final: one conflict value, A
C4_Witness ==
    /\ Returned
    /\ ~opts.IncludeOSEnv
    /\ \E n \in NamesOf(ByName) :
         LET v == ByName[n]
         IN /\ Len(v.Chain) = 3
            /\ v.Chain[1].Value = v.Chain[2].Value
            /\ v.Chain[1].Value # << >>
            /\ v.Chain[3].Value # << >>
            /\ v.Chain[3].Value # v.Chain[1].Value
            /\ v.Conflicts = << v.Chain[1].Value >>

\* an Observation read from a KEY=VALUE line of an env file: an explicit
\* assignment, even when the value is empty
ExplicitAssignment(src) ==
    ~src.IsInline /\ src.Layer # LayerOSEnv

\* C5: in strict mode a variable that is explicitly assigned the empty string
\* in an env file is not listed in Undefined.
C5_ExplicitEmptyNotUndefined ==
    (Returned /\ opts.StrictMode) =>
        \A n \in Elements(Undefined) :
            \A i \in 1..Len(ByName[n].Chain) :
                ~ExplicitAssignment(ByName[n].Chain[i])

\* never given a non-empty value: the final value and every Observation empty
NeverAssigned(v) ==
    /\ v.FinalValue = << >>
    /\ \A i \in 1..Len(v.Chain) : v.Chain[i].Value = << >>

\* C6: in strict mode Undefined holds exactly the names left in Variables by
\* the service filter whose final value is empty and that never had a
\* non-empty Observation; a filtered-out Variable is never in it; without
\* strict mode it is empty.
C6_UndefinedExact ==
    Returned =>
        IF opts.StrictMode
        THEN /\ NoDuplicates(Undefined)
             /\ Elements(Undefined)
                  = { n \in Elements(Variables) : NeverAssigned(ByName[n]) }
             /\ \A n \in NamesOf(ByName) \ Elements(Variables) :
                    n \notin Elements(Undefined)
        ELSE Undefined = << >>

\* strict mode with a service filter: one never-assigned name is kept and
\* listed, another is filtered out and not listed
C6_Witness ==
    /\ Returned
    /\ opts.StrictMode
    /\ opts.ServiceName # ""
    /\ Undefined # << >>
    /\ \E n \in NamesOf(ByName) \ Elements(Variables) :
         NeverAssigned(ByName[n])

\* C7: the call returns an error exactly when strict mode is set and
\* Undefined is non-empty, and the step that decides it leaves the Variables
\* and Warnings of the returned Resolution as they were; warnings, missing
\* artifacts and an empty result never make an error.
C7_ErrorIffStrictUndefined ==
    [][pc = "strict" =>
         /\ err' <=> (opts.StrictMode /\ Undefined' # << >>)
         /\ ByName' = ByName
         /\ Variables' = Variables
         /\ Warnings' = Warnings]_vars

\* strict mode fails while an artifact could not be parsed, and the
\* Resolution still carries its Variables and Warnings
C7_Witness ==
    /\ Returned
    /\ err
    /\ Warnings # << >>
    /\ Variables # << >>

\* the value the ambient environment gives a name, as a set: empty when the
\* environment has no entry for it
AmbientValues(env, n) ==
    { SubSeq(env[i], Len(n) + 2, Len(env[i])) :
        i \in { k \in 1..Len(env) : HasPrefix(env[k], n \o << "=" >>) } }

\* C8: the ambient merge adds no Variable and removes none, leaves a Variable
\* without ambient entry unchanged, and gives a Variable with an ambient entry
\* one more Observation, of the ambient layer, with FinalValue the ambient
\* value, FinalFrom in the ambient layer and Overridden true.
C8_AmbientMerge ==
    [][(pc = "osEnv" /\ opts'.IncludeOSEnv) =>
         /\ NamesOf(ByName') = NamesOf(ByName)
         /\ Variables' = Variables
         /\ \A n \in NamesOf(ByName) :
              LET old == ByName[n]
                  new == ByName'[n]
                  vals == AmbientValues(environ', n)
              IN IF vals = {}
                 THEN new = old
                 ELSE /\ Len(new.Chain) = Len(old.Chain) + 1
                      /\ SubSeq(new.Chain, 1, Len(old.Chain)) = old.Chain
                      /\ new.Chain[Len(new.Chain)].Layer = LayerOSEnv
                      /\ new.Chain[Len(new.Chain)].Value \in vals
                      /\ new.FinalValue \in vals
                      /\ new.FinalFrom.Layer = LayerOSEnv
                      /\ new.Overridden
                      /\ new.Name = old.Name
                      /\ new.Conflicts = old.Conflicts]_vars

\* after the merge: one Variable took the ambient value, another has no
\* ambient entry, and an ambient name the project does not use was ignored
C8_Witness ==
    /\ pc = "filter"
    /\ opts.IncludeOSEnv
    /\ \E n \in NamesOf(ByName) : HasAmbient(ByName[n].Chain)
    /\ \E n \in NamesOf(ByName) : ~HasAmbient(ByName[n].Chain)
    /\ \E i \in 1..Len(environ) :
         \A n \in NamesOf(ByName) : ~HasPrefix(environ[i], n \o << "=" >>)

\* the position of a name in a list of distinct names
IndexIn(q, n) == CHOOSE i \in 1..Len(q) : q[i] = n

\* C9: with a service name S the filter keeps exactly the Variables with an
\* Observation whose Service is S or empty, in their order, and changes no
\* Chain and no final value.
C9_FilterKeepsServiceAndGlobal ==
    [][(pc = "filter" /\ opts.ServiceName # "") =>
         /\ ByName' = ByName
         /\ NoDuplicates(Variables')
         /\ Elements(Variables')
              = { n \in Elements(Variables) :
                    \E i \in 1..Len(ByName[n].Chain) :
                        ByName[n].Chain[i].Service
                            \in { opts.ServiceName, "" } }
         /\ \A i, j \in 1..Len(Variables') :
              i < j => IndexIn(Variables, Variables'[i])
                         < IndexIn(Variables, Variables'[j])]_vars

\* the filter dropped a Variable of another service and kept a global one
\* and one of the requested service
C9_Witness ==
    /\ pc = "strict"
    /\ opts.ServiceName = "api"
    /\ \E n \in NamesOf(ByName) \ Elements(Variables) :
         \A i \in 1..Len(ByName[n].Chain) : ByName[n].Chain[i].Service = "db"
    /\ \E n \in Elements(Variables) :
         \E i \in 1..Len(ByName[n].Chain) : ByName[n].Chain[i].Service = "api"

\* C10: a Variable all of whose file and manifest Observations are scoped to
\* services other than the requested one is not in the filtered list.
C10_OtherServiceFilteredOut ==
    (Returned /\ opts.ServiceName # "") =>
        \A n \in NamesOf(ByName) :
            (\A i \in 1..Len(ByName[n].Chain) :
                 ByName[n].Chain[i].Layer # LayerOSEnv
                     => ByName[n].Chain[i].Service
                            \notin { opts.ServiceName, "" })
            => n \notin Elements(Variables)

\* q is in strictly ascending name order
AscendingNames(q) == \A i, j \in 1..Len(q) : i < j => StrLess(q[i], q[j])

DiffNames(diffs) == [i \in 1..Len(diffs) |-> diffs[i].Name]

\* the names a Resolution's Variables list carries
ListedNames(r) == Elements(r.Variables)

\* C11: Compare(first, second) puts every name of either Resolution in exactly
\* one of OnlyInFirst, OnlyInSecond, Different, Same: a name on one side only
\* in that side's list, a name on both sides in Same when the final values
\* are equal and in Different, with both values, otherwise; each list is in
\* ascending name order.
C11_ComparePartitions ==
    Len(ret) >= 1 =>
        LET r == ret[1]
            F == ListedNames(args.first)
            S == ListedNames(args.second)
            lists == << r.OnlyInFirst, r.OnlyInSecond,
                        DiffNames(r.Different), r.Same >>
        IN /\ \A n \in F \cup S :
                Cardinality({ k \in 1..4 : n \in Elements(lists[k]) }) = 1
           /\ \A k \in 1..4 :
                /\ Elements(lists[k]) \subseteq F \cup S
                /\ NoDuplicates(lists[k])
                /\ AscendingNames(lists[k])
           /\ \A n \in F \ S : n \in Elements(r.OnlyInFirst)
           /\ \A n \in S \ F : n \in Elements(r.OnlyInSecond)
           /\ \A n \in F \cap S :
                LET a == args.first.ByName[n].FinalValue
                    b == args.second.ByName[n].FinalValue
                IN IF a = b
                   THEN n \in Elements(r.Same)
                   ELSE [Name |-> n, FirstValue |-> a, SecondValue |-> b]
                            \in Elements(r.Different)

C11_Witness ==
    /\ Len(ret) >= 1
    /\ ret[1].OnlyInFirst # << >>
    /\ ret[1].OnlyInSecond # << >>
    /\ ret[1].Different # << >>

\* C12: Compare(A, B) and Compare(B, A) exchange OnlyInFirst and
\* OnlyInSecond, have equal Same lists, and name the same variables in
\* Different with FirstValue and SecondValue swapped.
C12_CompareSymmetric ==
    Len(ret) = 2 =>
        LET ab == ret[1]
            ba == ret[2]
        IN /\ ab.OnlyInFirst = ba.OnlyInSecond
           /\ ab.OnlyInSecond = ba.OnlyInFirst
           /\ ab.Same = ba.Same
           /\ Len(ab.Different) = Len(ba.Different)
           /\ \A i \in 1..Len(ab.Different) :
                /\ ab.Different[i].Name = ba.Different[i].Name
                /\ ab.Different[i].FirstValue = ba.Different[i].SecondValue
                /\ ab.Different[i].SecondValue = ba.Different[i].FirstValue

C12_Witness ==
    /\ Len(ret) = 2
    /\ Len(ret[1].Different) = 2
    /\ ret[1].OnlyInFirst # << >>
    /\ ret[1].Same = << >>

\* s without its leading and trailing white space
Trimmed(s) ==
    LET keep == { i \in 1..Len(s) : ~IsSpace(s[i]) }
    IN IF keep = {} THEN << >>
       ELSE SubSeq(s, CHOOSE i \in keep : \A j \in keep : i <= j,
                      CHOOSE i \in keep : \A j \in keep : i >= j)

\* t without one leading "export "
WithoutExport(t) ==
    IF Len(t) >= 7 /\ SubSeq(t, 1, 7) = ExportPrefix
    THEN SubSeq(t, 8, Len(t)) ELSE t

HasEq(u) == \E k \in 1..Len(u) : u[k] = "="
FirstEq(u) ==
    CHOOSE k \in 1..Len(u) : u[k] = "=" /\ \A j \in 1..(k - 1) : u[j] # "="
BeforeEq(u) == SubSeq(u, 1, FirstEq(u) - 1)
AfterEq(u) == SubSeq(u, FirstEq(u) + 1, Len(u))

\* v without one outer pair of equal quote characters
OuterPairRemoved(v) ==
    IF Len(v) >= 2 /\ v[1] = v[Len(v)] /\ v[1] \in { "\"", "'" }
    THEN SubSeq(v, 2, Len(v) - 1) ELSE v

\* the lines the plain env-file algorithm accepts, and what it reads in them
AcceptedLine(raw) ==
    LET t == Trimmed(raw)
        u == WithoutExport(t)
    IN /\ t # << >>
       /\ t[1] # "#"
       /\ HasEq(u)
       /\ Trimmed(BeforeEq(u)) # << >>
ExpectedKey(raw) == Trimmed(BeforeEq(WithoutExport(Trimmed(raw))))
ExpectedValue(raw) ==
    OuterPairRemoved(Trimmed(AfterEq(WithoutExport(Trimmed(raw)))))

\* the << name, line, value >> triples of the Observations an index holds
Triples(byName) ==
    UNION { { << n, byName[n].Chain[k].Line, byName[n].Chain[k].Value >> :
              k \in 1..Len(byName[n].Chain) } : n \in DOMAIN byName }

ExpectedTriples(lines) ==
    { << ExpectedKey(lines[i]), i, ExpectedValue(lines[i]) >> :
        i \in { k \in 1..Len(lines) : AcceptedLine(lines[k]) } }

\* C13: parseEnvFile emits exactly one Observation for each line it scans
\* that, trimmed, is non-empty, does not begin with "#" and, without a leading
\* "export ", has an "=" after a key that is non-empty when trimmed; no other
\* line emits anything.  The key is the trimmed text before the first "=",
\* the value the trimmed text after it with one outer quote pair removed,
\* Line the 1-based number of the line, skipped lines counted.
C13_PlainParsing ==
    Len(ret) >= 1 =>
        /\ Triples(ret[1].byName) = ExpectedTriples(args.lines)
        /\ ObsCount(ret[1].byName)
             = Cardinality({ k \in 1..Len(args.lines) :
                               AcceptedLine(args.lines[k]) })
        /\ \A n \in DOMAIN ret[1].byName :
             \A k \in 1..Len(ret[1].byName[n].Chain) :
                LET src == ret[1].byName[n].Chain[k]
                IN src.Layer = LayerEnv /\ src.File = ".env"
                   /\ src.Service = "" /\ ~src.IsInline

C13_Witness ==
    /\ Len(ret) >= 1
    /\ args.lines = << LineComment, LineAy >>
    /\ Triples(ret[1].byName) = { << << "A" >>, 2, << "y" >> >> }

\* s is wrapped in a pair of equal quote characters
Wrapped(s) ==
    /\ Len(s) >= 2
    /\ \/ s[1] = "\"" /\ s[Len(s)] = "\""
       \/ s[1] = "'" /\ s[Len(s)] = "'"

\* C14: unquote(s) is s without its first and last character when s has at
\* least two characters and both are " or both are '; in every other case
\* it is s.  Only one pair goes: inner quotes stay.
C14_UnquoteOnePair ==
    Len(ret) = 1 =>
        IF Wrapped(args)
        THEN /\ Len(ret[1]) = Len(args) - 2
             /\ \A i \in 1..Len(ret[1]) : ret[1][i] = args[i + 1]
        ELSE ret[1] = args

C14_Witness ==
    /\ Len(ret) = 1
    /\ args = << "\"", "'", "x", "\"" >>
    /\ ret[1] = << "'", "x" >>

\* a value in the style of 'it'"s': it starts with ', holds a ' followed by
\* a " inside, and ends with '
ItsStyle(s) ==
    /\ Len(s) >= 4
    /\ s[1] = "'"
    /\ s[Len(s)] = "'"
    /\ \E k \in 2..(Len(s) - 2) : s[k] = "'" /\ s[k + 1] = "\""

\* C15: unquoting a value in the style of 'it'"s' leaves it unchanged.
C15_ItsStyleUnchanged ==
    (Len(ret) = 1 /\ ItsStyle(args)) => ret[1] = args

\* C16: a file referenced by env_file yields Observations with the same
\* names, values and line numbers as parseEnvFile yields on the same content
\* (export prefix stripped, empty keys skipped), all in the file-reference
\* Layer and scoped to the owning service.
C16_RefParsedAsPlain ==
    Len(ret) = 2 =>
        /\ Triples(ret[2].byName) = Triples(ret[1].byName)
        /\ ObsCount(ret[2].byName) = ObsCount(ret[1].byName)
        /\ \A n \in DOMAIN ret[2].byName :
             \A k \in 1..Len(ret[2].byName[n].Chain) :
                /\ ret[2].byName[n].Chain[k].Layer = LayerComposeEnvFile
                /\ ret[2].byName[n].Chain[k].Service = "api"

\* C17: a mapping entry NAME -> VALUE and a list entry NAME=VALUE emit one
\* Observation each, with the same name and value; a mapping entry without a
\* value and a bare list entry NAME emit one with the empty value.  Each has
\* the inline Layer, the manifest path as File, Line 0, the owning service
\* and IsInline true.
C17_InlineShapesAgree ==
    Len(ret) = 2 =>
        /\ ret[1] = ret[2]
        /\ DOMAIN ret[1] = { args[i][1] : i \in 1..Len(args) }
        /\ \A i \in 1..Len(args) :
             ret[1][args[i][1]].Chain =
                << [Layer |-> LayerComposeInline,
                    File |-> "docker-compose.yml", Line |-> 0,
                    Service |-> "api",
                    Value |-> IF args[i][2].t = "nil" THEN << >>
                              ELSE WrittenValue(args[i][2]),
                    IsInline |-> TRUE] >>

C17_Witness ==
    /\ Len(ret) = 2
    /\ args = << << << "A" >>, YNil >>,
                 << << "B" >>, YStr(<< "x", "=", "y" >>) >> >>
    /\ ret[2][<< "A" >>].Chain[1].Value = << >>
    /\ ret[2][<< "B" >>].Chain[1].Value = << "x", "=", "y" >>

\* C18: a manifest that exists but cannot be read or decoded adds exactly one
\* warning and no Observation; what was ingested before stays as it is, the
\* scan goes on to the next pattern as it does after an absent manifest, and
\* the call returns an error only for undefined variables in strict mode.
C18_BadManifestOnlyWarns ==
    /\ [][(pc = "composePatterns" /\ manifest' \in {"unreadable", "invalid"})
            => /\ Warnings' = Append(Warnings,
                                     ParseWarning(composePatterns[idx]))
               /\ ByName' = ByName
               /\ EnvFiles' = EnvFiles
               /\ refFiles' = refFiles
               /\ err' = FALSE
               /\ IF idx < Len(composePatterns)
                  THEN pc' = "composePatterns" /\ idx' = idx + 1
                  ELSE pc' = "finalize"]_vars
    /\ [](err => opts.StrictMode /\ Undefined # << >>)

\* a first manifest failed to parse, a later one was ingested, and the call
\* returned without error
C18_Witness ==
    /\ Returned
    /\ ~err
    /\ EnvFiles = << >>
    /\ Len(ComposeFiles) = 2
    /\ Len(Warnings) = 1
    /\ manifest = "doc"
    /\ ByName # EmptyMap

\* C19: every env file that exists but cannot be opened or read leaves a
\* warning on the Resolution and no Observation, whichever way it was found.
\* Stated for the files found through a service's env_file, whose state
\* refFiles records: each unreadable one has a warning that names it and no
\* Observation carries it as File.
C19_UnreadableFileWarns ==
    Returned =>
        \A p \in DOMAIN refFiles :
            refFiles[p].kind = "unreadable" =>
                /\ \E i \in 1..Len(Warnings) : Warnings[i][2] = p
                /\ \A n \in DOMAIN ByName :
                     \A k \in 1..Len(ByName[n].Chain) :
                        ByName[n].Chain[k].File # p

\* C20: two ResolveWithOptions calls with the same base path, options and
\* ambient environment on an unchanged file system return equal Resolutions:
\* the same variable names and, for each, the same FinalValue, FinalFrom,
\* Chain order, Overridden and Conflicts.
C20_ResolveIdempotent ==
    Len(ret) = 2 =>
        /\ ret[1].Variables = ret[2].Variables
        /\ \A n \in DOMAIN ret[1].ByName :
             /\ ret[1].ByName[n].FinalValue = ret[2].ByName[n].FinalValue
             /\ ret[1].ByName[n].FinalFrom = ret[2].ByName[n].FinalFrom
             /\ ret[1].ByName[n].Chain = ret[2].ByName[n].Chain
             /\ ret[1].ByName[n].Overridden = ret[2].ByName[n].Overridden
             /\ ret[1].ByName[n].Conflicts = ret[2].ByName[n].Conflicts

\* C21: a Variable's Chain is a permutation of the Observations ingested for
\* its name, in ascending layer rank, and Observations of equal rank keep
\* their ingestion order.
C21_ChainSortedStable ==
    Len(ret) = 1 =>
        LET chain == ret[1]
        IN /\ Len(chain) = Len(args)
           /\ \A i \in 1..Len(args) :
                Cardinality({ k \in 1..Len(chain) : chain[k] = args[i] }) = 1
           /\ \A i, j \in 1..Len(chain) :
                i < j =>
                   /\ Precedence(chain[i].Layer) <= Precedence(chain[j].Layer)
                   /\ Precedence(chain[i].Layer) = Precedence(chain[j].Layer)
                        => chain[i].Line < chain[j].Line

\* C22: in a returned Resolution, whatever the options, no Variable's
\* Conflicts holds its FinalValue, a value twice or the empty string.
C22_ConflictsAreNonFinal ==
    Returned =>
        \A n \in NamesOf(ByName) :
            /\ ByName[n].FinalValue \notin Elements(ByName[n].Conflicts)
            /\ NoDuplicates(ByName[n].Conflicts)
            /\ << >> \notin Elements(ByName[n].Conflicts)

\* C23: no Variable with an empty name is created: an entry whose key is
\* empty emits no Observation, so the index never has "" as a key.  Stated
\* for the two file parsers run on the same lines.
C23_NoEmptyName ==
    \A k \in 1..Len(ret) : << >> \notin DOMAIN ret[k].byName

====
